---- MODULE Spec2Model ----
(***************************************************************************)
(* Model of the RTL-SDR planning code of fetch-radioreference.py:          *)
(* main logs in, looks the system up and asks for the upload services      *)
(* unless it runs with --update-only, fetch_system_data collects the       *)
(* frequencies and control channels of the selected site row,              *)
(* generate_config partitions the sorted frequencies into receivers and    *)
(* computes their centers, display_frequency_graph draws them, and         *)
(* calculate_recorders grants each receiver its number of digital          *)
(* recorders; analyze-config.py recommends recorder counts for the         *)
(* config.json that main has written.                                      *)
(***************************************************************************)
EXTENDS Integers, Sequences, FiniteSets, TLC

\* ---------------------------------------------------------------- bounds
\* number of frequency cells of the selected site row (row[9:])
MaxCells == 4
\* number of calls of generate_config on the same system_info
MaxRuns == 2
\* largest total_devices handed to calculate_recorders on its own
MaxDevices == 8
\* longest control channel list handed to calculate_recorders on its own
MaxControls == 3

\* frequencies (Hz) a cell of the site row can hold
FreqDomain == {851012500, 851512500, 852012500, 853987500, 861000000}
\* frequencies (Hz) a control channel cell of the site row can hold
ControlDomain == {851012500, 861000000}
\* control channel values used for calculate_recorders on its own: the center
\* and the upper limit of its window
AllocFreqs == {851012500, 852212500}
\* centers used for calculate_recorders on its own
AllocCenters == {851012500}
\* bandwidth arguments handed to calculate_recorders on its own
AllocBandwidths == {-2400000, 0, 2400000}

\* ------------------------------------------------------ program constants
total_recorders == 36
min_recorders == 6
max_recorders == 10
max_control_bonus == 2
rtl_bandwidth == 2400000
scale_width == 60
MHz == 1000000
analyzer_base == 7

\* the prompts of main and of get_upload_config
ConfirmPrompt == "Is this the correct system?"
UploadPrompts == {"Press Enter to continue with configuration",
                  "Use Broadcastify upload?", "Use OpenMHz upload?",
                  "Use RDIOScanner upload?"}

\* the value None that generate_config returns when it has no plan
None == [none |-> TRUE]
NoFrequenciesFound == "No frequencies found"
GraphDisplayed == "RTL-SDR Frequency Distribution"

VARIABLES pc, cell, system_info, freqs, num_sources, groups, centers,
          sources, config, results, config_json, messages, alloc, prev_alloc,
          update_only, talkgroups, fetched, files, prompts, rtl_lines,
          recommended

vars == <<pc, cell, system_info, freqs, num_sources, groups, centers,
          sources, config, results, config_json, messages, alloc, prev_alloc,
          update_only, talkgroups, fetched, files, prompts, rtl_lines,
          recommended>>

\* the arguments and locals of main
mainVars == <<update_only, talkgroups, fetched, files, prompts>>

\* the lines of display_frequency_graph and of analyze-config.py
toolVars == <<rtl_lines, recommended>>

planVars == <<pc, cell, system_info, freqs, num_sources, groups, centers,
              sources, config, results, config_json, messages, mainVars,
              toolVars>>

allocVars == <<alloc, prev_alloc>>

\* ------------------------------------------------------- python builtins
Min2(a, b) == IF a <= b THEN a ELSE b

Max2(a, b) == IF a >= b THEN a ELSE b

Range(s) == {s[k] : k \in DOMAIN s}

\* min(list), max(list) of a non-empty list
SeqMin(s) == CHOOSE x \in Range(s) : \A y \in Range(s) : x <= y

SeqMax(s) == CHOOSE x \in Range(s) : \A y \in Range(s) : x >= y

\* sorted(list): ascending, duplicates kept
RECURSIVE InsertSorted(_, _)
InsertSorted(s, x) ==
    IF s = <<>> THEN <<x>>
    ELSE IF x < Head(s) THEN <<x>> \o s
    ELSE <<Head(s)>> \o InsertSorted(Tail(s), x)

\* variant: the list is used in the order of the site row
Unsorted(s) == s

RECURSIVE Sorted(_)
Sorted(s) == IF s = <<>> THEN <<>> ELSE InsertSorted(Sorted(SubSeq(s, 1, Len(s) - 1)), s[Len(s)])

\* list[start_idx:end_idx] with 0-based indices, cut at the end of the list
Slice(s, start_idx, end_idx) ==
    SubSeq(s, Min2(start_idx, Len(s)) + 1, Min2(end_idx, Len(s)))

\* variant: the upper limit is not part of the window
InRangeBelowUpper(s, lower_limit, upper_limit) ==
    SelectSeq(s, LAMBDA f : lower_limit <= f /\ f < upper_limit)

\* [f for f in list if lower_limit <= f <= upper_limit]
InRange(s, lower_limit, upper_limit) ==
    SelectSeq(s, LAMBDA f : lower_limit <= f /\ f <= upper_limit)

\* --------------------------------------------------- calculate_recorders
LowerLimit(center_freq, bandwidth) == center_freq - (bandwidth \div 2)

UpperLimit(center_freq, bandwidth) == center_freq + (bandwidth \div 2)

FreqCount(center_freq, bandwidth, all_frequencies) ==
    Len(InRange(all_frequencies, LowerLimit(center_freq, bandwidth),
                UpperLimit(center_freq, bandwidth)))

ControlCount(center_freq, bandwidth, control_channels) ==
    Len(InRange(control_channels, LowerLimit(center_freq, bandwidth),
                UpperLimit(center_freq, bandwidth)))

BasePerDevice(total_devices) == total_recorders \div total_devices

Remainder(total_devices) == total_recorders % total_devices

\* variant: the bonus of max_control_bonus is shared among the control channels
ControlBonusShared(control_count) ==
    IF control_count > 0 THEN max_control_bonus \div control_count ELSE 0

ControlBonus(control_count) ==
    IF control_count > 0 THEN Min2(max_control_bonus, control_count) ELSE 0

\* variant: the remainder goes to the later devices
RemainderShareLater(device_index, total_devices) ==
    IF device_index >= total_devices - Remainder(total_devices) THEN 1 ELSE 0

\* variant: the device at index remainder gets an extra recorder too
RemainderShareInclusive(device_index, total_devices) ==
    IF device_index <= Remainder(total_devices) THEN 1 ELSE 0

RemainderShare(device_index, total_devices) ==
    IF device_index < Remainder(total_devices) THEN 1 ELSE 0

Unclamped(device_index, control_count, total_devices) ==
    BasePerDevice(total_devices) + ControlBonus(control_count)
        + RemainderShare(device_index, total_devices)

\* variant: only the maximum is enforced
ClampRecordersNoMin(recorders) == Min2(max_recorders, recorders)

\* variant: only the minimum is enforced
ClampRecordersNoMax(recorders) == Max2(min_recorders, recorders)

ClampRecorders(recorders) == Max2(min_recorders, Min2(max_recorders, recorders))

calculate_recorders(device_index, center_freq, bandwidth, all_frequencies, control_channels, total_devices) ==
    ClampRecorders(Unclamped(device_index,
                             ControlCount(center_freq, bandwidth, control_channels),
                             total_devices))

\* ------------------------------------------------------- generate_config
\* variant: the + 1 is left out
NumSourcesNoExtra(fs) == Max2(1, (SeqMax(fs) - SeqMin(fs)) \div rtl_bandwidth)

NumSources(fs) == Max2(1, ((SeqMax(fs) - SeqMin(fs)) \div rtl_bandwidth) + 1)

\* variant: the extra entries go to the last groups
GroupSizeRemainderLast(i, count, n) ==
    (count \div n) + (IF i >= n - (count % n) THEN 1 ELSE 0)

GroupSize(i, count, n) == (count \div n) + (IF i < count % n THEN 1 ELSE 0)

\* variant: every receiver sits at the midpoint of the whole list, shifted by
\* its index
GroupCenterGlobal(freq_group, i, fs, n) ==
    SeqMin(fs) + (((SeqMax(fs) - SeqMin(fs)) * (2 * i + 1)) \div (2 * n))

\* variant: a receiver is tuned to the lowest frequency of its group
GroupCenterAtMin(freq_group, i, fs, n) ==
    IF freq_group # <<>>
    THEN SeqMin(freq_group)
    ELSE SeqMin(fs) + (((SeqMax(fs) - SeqMin(fs)) * (2 * i + 1)) \div (2 * n))

\* center of one frequency group; the fallback of an empty group is
\* int(min_freq + span * (i + 0.5) / num_sources)
GroupCenter(freq_group, i, fs, n) ==
    IF freq_group # <<>>
    THEN (SeqMin(freq_group) + SeqMax(freq_group)) \div 2
    ELSE SeqMin(fs) + (((SeqMax(fs) - SeqMin(fs)) * (2 * i + 1)) \div (2 * n))

\* the loop over range(num_sources): the centers list, and the freq_group of
\* every iteration
RECURSIVE PartitionLoop(_, _, _, _, _, _)
PartitionLoop(i, start_idx, cs, gs, fs, n) ==
    IF i >= n THEN [centers |-> cs, groups |-> gs]
    ELSE LET end_idx == start_idx + GroupSize(i, Len(fs), n)
             freq_group == Slice(fs, start_idx, end_idx)
         IN PartitionLoop(i + 1, end_idx,
                          Append(cs, GroupCenter(freq_group, i, fs, n)),
                          Append(gs, freq_group), fs, n)

Source(i, cs, fs, control_channels, n) ==
    [center |-> cs[i + 1],
     rate |-> rtl_bandwidth,
     digitalRecorders |-> calculate_recorders(i, cs[i + 1], rtl_bandwidth, fs,
                                              control_channels, n),
     device |-> i]

\* the loop that appends one source per center
RECURSIVE SourcesLoop(_, _, _, _, _, _)
SourcesLoop(i, srcs, cs, fs, control_channels, n) ==
    IF i >= n THEN srcs
    ELSE SourcesLoop(i + 1, Append(srcs, Source(i, cs, fs, control_channels, n)),
                     cs, fs, control_channels, n)

\* ------------------------------------------------------------ the state
NoCall == [called |-> FALSE]

InitAllocVars == alloc = NoCall /\ prev_alloc = NoCall

\* main is started with or without --update-only
InitMainVars ==
    /\ update_only \in BOOLEAN
    /\ talkgroups = "pending"
    /\ fetched = "pending"
    /\ files = {}
    /\ prompts = {}

InitToolVars == rtl_lines = <<>> /\ recommended = <<>>

InitPlanVars ==
    /\ pc = "login"
    /\ cell = 0
    /\ system_info = [frequencies |-> <<>>, control_channels |-> <<>>]
    /\ freqs = <<>>
    /\ num_sources = 0
    /\ groups = <<>>
    /\ centers = <<>>
    /\ sources = <<>>
    /\ config = None
    /\ results = <<>>
    /\ config_json = None
    /\ messages = {}
    /\ InitMainVars
    /\ InitToolVars

Init == InitPlanVars /\ InitAllocVars

\* ------------------------------------------------ main, up to the fetch
\* login_radioreference returns None: sys.exit(1)
MainLoginFails ==
    /\ pc = "login"
    /\ pc' = "stopped"
    /\ UNCHANGED <<cell, system_info, freqs, num_sources, groups, centers, sources,
                   config, results, config_json, messages, alloc, prev_alloc, mainVars, toolVars>>

MainLogin ==
    /\ pc = "login"
    /\ pc' = "lookup"
    /\ UNCHANGED <<cell, system_info, freqs, num_sources, groups, centers, sources,
                   config, results, config_json, messages, alloc, prev_alloc, mainVars, toolVars>>

\* get_system_info returns None: sys.exit(1)
MainSystemNotFound ==
    /\ pc = "lookup"
    /\ pc' = "stopped"
    /\ UNCHANGED <<cell, system_info, freqs, num_sources, groups, centers, sources,
                   config, results, config_json, messages, alloc, prev_alloc, mainVars, toolVars>>

\* the system is found; a full run asks whether it is the correct one and
\* stops on any answer but yes, an update-only run goes on unasked
MainSystemFound(confirmed) ==
    /\ pc = "lookup"
    /\ IF update_only
       THEN /\ confirmed
            /\ prompts' = prompts
            /\ pc' = "talkgroups"
       ELSE /\ prompts' = prompts \cup {ConfirmPrompt}
            /\ pc' = IF confirmed THEN "talkgroups" ELSE "stopped"
    /\ UNCHANGED <<cell, system_info, freqs, num_sources, groups, centers, sources,
                   config, results, config_json, messages, alloc, prev_alloc,
                   update_only, talkgroups, fetched, files, toolVars>>

\* --------------------------------- fetch_system_data, the two downloads
\* the talkgroups CSV is not delivered: return None, None
FetchTalkgroupsFails ==
    /\ pc = "talkgroups"
    /\ talkgroups' = "None"
    /\ fetched' = "None"
    /\ pc' = "upload"
    /\ UNCHANGED <<cell, system_info, freqs, num_sources, groups, centers, sources,
                   config, results, config_json, messages, alloc, prev_alloc,
                   update_only, files, prompts, toolVars>>

\* the talkgroups CSV is parsed into a list, empty or not
FetchTalkgroups(tgs) ==
    /\ pc = "talkgroups"
    /\ talkgroups' = tgs
    /\ pc' = "sites"
    /\ UNCHANGED <<cell, system_info, freqs, num_sources, groups, centers, sources,
                   config, results, config_json, messages, alloc, prev_alloc,
                   update_only, fetched, files, prompts, toolVars>>

\* the sites CSV is not delivered or lists no site: return talkgroups, None
FetchSitesFails ==
    /\ pc = "sites"
    /\ fetched' = "None"
    /\ pc' = "upload"
    /\ UNCHANGED <<cell, system_info, freqs, num_sources, groups, centers, sources,
                   config, results, config_json, messages, alloc, prev_alloc,
                   update_only, talkgroups, files, prompts, toolVars>>

\* a site is selected and system_info is created with its empty lists
FetchSiteSelected ==
    /\ pc = "sites"
    /\ system_info' = [frequencies |-> <<>>, control_channels |-> <<>>]
    /\ pc' = "fetch"
    /\ UNCHANGED <<cell, freqs, num_sources, groups, centers, sources,
                   config, results, config_json, messages, alloc, prev_alloc, mainVars, toolVars>>

\* ------------------------------------------- fetch_system_data, one cell
\* variant: a control channel is recorded as control channel only
FetchControlCellOnly(f) ==
    /\ pc = "fetch"
    /\ cell < MaxCells
    /\ system_info' = [system_info EXCEPT !.control_channels = Append(@, f)]
    /\ cell' = cell + 1
    /\ UNCHANGED <<pc, freqs, num_sources, groups, centers, sources, config,
                   results, config_json, messages, alloc, prev_alloc, mainVars, toolVars>>

FetchControlCell(f) ==
    /\ pc = "fetch"
    /\ cell < MaxCells
    /\ system_info' = [frequencies |-> Append(system_info.frequencies, f),
                       control_channels |-> Append(system_info.control_channels, f)]
    /\ cell' = cell + 1
    /\ UNCHANGED <<pc, freqs, num_sources, groups, centers, sources, config,
                   results, config_json, messages, alloc, prev_alloc, mainVars, toolVars>>

FetchRegularCell(f) ==
    /\ pc = "fetch"
    /\ cell < MaxCells
    /\ system_info' = [system_info EXCEPT !.frequencies = Append(@, f)]
    /\ cell' = cell + 1
    /\ UNCHANGED <<pc, freqs, num_sources, groups, centers, sources, config,
                   results, config_json, messages, alloc, prev_alloc, mainVars, toolVars>>

\* an empty cell, a cell without '.', or a cell float() rejects
FetchSkippedCell ==
    /\ pc = "fetch"
    /\ cell < MaxCells
    /\ cell' = cell + 1
    /\ UNCHANGED <<pc, system_info, freqs, num_sources, groups, centers, sources,
                   config, results, config_json, messages, alloc, prev_alloc, mainVars, toolVars>>

FetchReturn ==
    /\ pc = "fetch"
    /\ fetched' = "system_info"
    /\ pc' = "upload"
    /\ UNCHANGED <<cell, system_info, freqs, num_sources, groups, centers, sources,
                   config, results, config_json, messages, alloc, prev_alloc,
                   update_only, talkgroups, files, prompts, toolVars>>

\* ------------------------------------------------ main, after the fetch
\* the upload services are asked for in a full run only; then main stops
\* without talkgroups, and a full run stops without system_info
MainUploadConfig ==
    /\ pc = "upload"
    /\ prompts' = IF update_only THEN prompts ELSE prompts \cup UploadPrompts
    /\ pc' = IF talkgroups # "found" THEN "stopped"
             ELSE IF ~update_only /\ fetched = "None" THEN "stopped"
             ELSE "save"
    /\ UNCHANGED <<cell, system_info, freqs, num_sources, groups, centers, sources,
                   config, results, config_json, messages, alloc, prev_alloc,
                   update_only, talkgroups, fetched, files, toolVars>>

\* the files main writes when tg_response has status 200 (ok)
TalkgroupFiles(ok) ==
    IF ~ok THEN {}
    ELSE IF update_only THEN {"talkgroup.csv"}
    ELSE {"talkgroup.csv", "talkgroup-rdio.csv", "talkgroup-openmhz.csv"}

\* variant: the additional formats are written in every run
MainSaveAlways(ok) ==
    /\ pc = "save"
    /\ files' = files \cup (IF ok THEN {"talkgroup.csv", "talkgroup-rdio.csv",
                                          "talkgroup-openmhz.csv"}
                                ELSE {})
                   \cup (IF fetched = "system_info" THEN {"siteinfo.json"} ELSE {})
    /\ pc' = IF update_only THEN "stopped" ELSE "main"
    /\ UNCHANGED <<cell, system_info, freqs, num_sources, groups, centers, sources,
                   config, results, config_json, messages, alloc, prev_alloc,
                   update_only, talkgroups, fetched, prompts, toolVars>>

\* the talkgroup CSV files and siteinfo.json are saved; a full run goes on to
\* generate_config, an update-only run is finished
MainSave(ok) ==
    /\ pc = "save"
    /\ files' = files \cup TalkgroupFiles(ok)
                   \cup (IF fetched = "system_info" THEN {"siteinfo.json"} ELSE {})
    /\ pc' = IF update_only THEN "stopped" ELSE "main"
    /\ UNCHANGED <<cell, system_info, freqs, num_sources, groups, centers, sources,
                   config, results, config_json, messages, alloc, prev_alloc,
                   update_only, talkgroups, fetched, prompts, toolVars>>

\* ------------------------------------------------------- generate_config
\* variant: an empty list yields a configuration without sources
GenerateConfigEmptyPlan ==
    /\ pc = "main"
    /\ Len(results) < MaxRuns
    /\ system_info.frequencies = <<>>
    /\ messages' = messages \cup {NoFrequenciesFound}
    /\ config' = [sources |-> <<>>, control_channels |-> system_info.control_channels]
    /\ results' = Append(results, config')
    /\ pc' = "returned"
    /\ UNCHANGED <<cell, system_info, freqs, num_sources, groups, centers, sources,
                   config_json, alloc, prev_alloc, mainVars, toolVars>>

GenerateConfigNoFrequencies ==
    /\ pc = "main"
    /\ Len(results) < MaxRuns
    /\ system_info.frequencies = <<>>
    /\ messages' = messages \cup {NoFrequenciesFound}
    /\ config' = None
    /\ results' = Append(results, None)
    /\ pc' = "returned"
    /\ UNCHANGED <<cell, system_info, freqs, num_sources, groups, centers, sources,
                   config_json, alloc, prev_alloc, mainVars, toolVars>>

\* variant: the sources list outlives the call (it is not emptied)
GenerateConfigPartitionKeepsSources ==
    /\ pc = "main"
    /\ Len(results) < MaxRuns
    /\ system_info.frequencies # <<>>
    /\ LET fs == Sorted(system_info.frequencies)
           n == NumSources(fs)
           loop == PartitionLoop(0, 0, <<>>, <<>>, fs, n)
       IN /\ freqs' = fs
          /\ num_sources' = n
          /\ centers' = loop.centers
          /\ groups' = loop.groups
    /\ pc' = "partitioned"
    /\ UNCHANGED <<cell, system_info, sources, config, results, config_json,
                   messages, alloc, prev_alloc, mainVars, toolVars>>

GenerateConfigPartition ==
    /\ pc = "main"
    /\ Len(results) < MaxRuns
    /\ system_info.frequencies # <<>>
    /\ LET fs == Sorted(system_info.frequencies)
           n == NumSources(fs)
           loop == PartitionLoop(0, 0, <<>>, <<>>, fs, n)
       IN /\ freqs' = fs
          /\ num_sources' = n
          /\ centers' = loop.centers
          /\ groups' = loop.groups
    /\ sources' = <<>>
    /\ pc' = "partitioned"
    /\ UNCHANGED <<cell, system_info, config, results, config_json, messages,
                   alloc, prev_alloc, mainVars, toolVars>>

\* ----------------------------------------------- display_frequency_graph
\* int(a / b) for b > 0: the quotient truncated toward zero
Trunc(a, b) == IF a >= 0 THEN a \div b ELSE -((-a) \div b)

\* scale_start = int(min_freq), in MHz
ScaleStart(fs) == SeqMin(fs) \div MHz

\* scale_end = int(max_freq) + 1, in MHz
ScaleEnd(fs) == (SeqMax(fs) \div MHz) + 1

\* (x_mhz - scale_start) / (scale_end - scale_start) * scale_width as the
\* fraction ScaleNumerator / ScaleDenominator of integers
ScaleNumerator(hz, fs) == (hz - ScaleStart(fs) * MHz) * scale_width

ScaleDenominator(fs) == (ScaleEnd(fs) - ScaleStart(fs)) * MHz

\* the exact value of the position is an integer other than 0: the floating
\* point value int() truncates may fall just short of it
OnGrid(hz, fs) ==
    /\ ScaleNumerator(hz, fs) # 0
    /\ ScaleNumerator(hz, fs) % ScaleDenominator(fs) = 0

\* a position on the scale; short holds the computations whose floating point
\* value falls short of the exact integer
ScalePos(kind, hz, fs, short) ==
    LET q == Trunc(ScaleNumerator(hz, fs), ScaleDenominator(fs))
    IN IF <<kind, hz>> \in short /\ OnGrid(hz, fs)
       THEN (IF q > 0 THEN q - 1 ELSE q + 1)
       ELSE q

\* center_mhz - bw_mhz <= freq_mhz <= center_mhz + bw_mhz; a frequency
\* exactly on a limit is inside unless the floating point limit is short of it
InWindow(f, center, short) ==
    LET lower == center - (rtl_bandwidth \div 2)
        upper == center + (rtl_bandwidth \div 2)
    IN \/ lower < f /\ f < upper
       \/ f = lower /\ <<"lower_limit", f>> \notin short
       \/ f = upper /\ <<"upper_limit", f>> \notin short

\* the computations of one display whose floating point result is not the
\* exact one for certain
Doubtful(fs, cs) ==
    LET half == rtl_bandwidth \div 2
    IN {<<"center", c>> : c \in {d \in Range(cs) : OnGrid(d, fs)}}
       \cup {<<"start", c - half>> : c \in {d \in Range(cs) : OnGrid(d - half, fs)}}
       \cup {<<"end", c + half>> : c \in {d \in Range(cs) : OnGrid(d + half, fs)}}
       \cup {<<"freq", f>> : f \in {g \in Range(fs) : OnGrid(g, fs)}}
       \cup {<<"lower_limit", f>> : f \in {g \in Range(fs) : g + half \in Range(cs)}}
       \cup {<<"upper_limit", f>> : f \in {g \in Range(fs) : g - half \in Range(cs)}}

\* variant: the coverage starts at start_pos, left of the scale or not
CoverageFromUnclamped(start_pos) == start_pos

\* max(0, start_pos)
CoverageFrom(start_pos) == Max2(0, start_pos)

\* min(scale_width + 1, end_pos + 1), the end of the range() of coverage
CoverageBefore(end_pos) == Min2(scale_width + 1, end_pos + 1)

\* one rtl_line: the positions computed for a center and the positions of
\* rtl_line written with each marker
RtlLine(center, fs, short) ==
    LET half == rtl_bandwidth \div 2
        center_pos == ScalePos("center", center, fs, short)
        start_pos == ScalePos("start", center - half, fs, short)
        end_pos == ScalePos("end", center + half, fs, short)
        center_mark == IF 0 <= center_pos /\ center_pos <= scale_width
                       THEN {center_pos} ELSE {}
        freq_pos == {ScalePos("freq", f, fs, short) :
                        f \in {g \in Range(fs) : InWindow(g, center, short)}}
    IN [center_pos |-> center_pos, start_pos |-> start_pos, end_pos |-> end_pos,
        coverage |-> CoverageFrom(start_pos) .. (CoverageBefore(end_pos) - 1),
        center_mark |-> center_mark,
        freq_marks |-> {p \in freq_pos : 0 <= p /\ p <= scale_width
                                          /\ p \notin center_mark}]

DisplayFrequencyGraph ==
    /\ pc = "partitioned"
    /\ messages' = messages \cup {GraphDisplayed}
    /\ \E short \in SUBSET Doubtful(freqs, centers) :
         rtl_lines' = [i \in DOMAIN centers |-> RtlLine(centers[i], freqs, short)]
    /\ pc' = "displayed"
    /\ UNCHANGED <<cell, system_info, freqs, num_sources, groups, centers, sources,
                   config, results, config_json, alloc, prev_alloc, mainVars,
                   recommended>>

GenerateConfigSources ==
    /\ pc = "displayed"
    /\ LET srcs == SourcesLoop(0, sources, centers, freqs,
                               system_info.control_channels, num_sources)
           cfg == [sources |-> srcs,
                   control_channels |-> system_info.control_channels]
       IN /\ sources' = srcs
          /\ config' = cfg
          /\ results' = Append(results, cfg)
    /\ rtl_lines' = <<>>
    /\ pc' = "returned"
    /\ UNCHANGED <<cell, system_info, freqs, num_sources, groups, centers,
                   config_json, messages, alloc, prev_alloc, mainVars,
                   recommended>>

\* --------------------------------------------------------------- main
MainWriteConfig ==
    /\ pc = "returned"
    /\ config # None
    /\ config_json' = config
    /\ files' = files \cup {"config.json"}
    /\ pc' = "done"
    /\ UNCHANGED <<cell, system_info, freqs, num_sources, groups, centers, sources,
                   config, results, messages, alloc, prev_alloc,
                   update_only, talkgroups, fetched, prompts, toolVars>>

MainExit ==
    /\ pc = "returned"
    /\ config = None
    /\ pc' = "exit"
    /\ UNCHANGED <<cell, system_info, freqs, num_sources, groups, centers, sources,
                   config, results, config_json, messages, alloc, prev_alloc, mainVars, toolVars>>

\* generate_config is called again with the same system_info
CallAgain ==
    /\ pc \in {"done", "exit"}
    /\ Len(results) < MaxRuns
    /\ pc' = "main"
    /\ UNCHANGED <<cell, system_info, freqs, num_sources, groups, centers, sources,
                   config, results, config_json, messages, alloc, prev_alloc, mainVars, toolVars>>

\* ------------------------------------------------------ analyze-config.py
\* the recommended number of recorders of source i
Recommended(i, center, bandwidth, control_channels) ==
    LET lower == center - (bandwidth \div 2)
        upper == center + (bandwidth \div 2)
        controls_in_range == InRange(control_channels, lower, upper)
        bonus == IF Len(controls_in_range) > 0
                 THEN Min2(2, Len(controls_in_range)) ELSE 0
        first == IF i = 0 THEN 1 ELSE 0
    IN Max2(6, Min2(10, analyzer_base + bonus + first))

\* analyze-config.py is run on the config.json that main has written
AnalyzeConfig ==
    /\ pc = "done"
    /\ recommended' = [i \in DOMAIN config_json.sources |->
                          Recommended(i - 1, config_json.sources[i].center,
                                      config_json.sources[i].rate,
                                      config_json.control_channels)]
    /\ pc' = "analyzed"
    /\ UNCHANGED <<cell, system_info, freqs, num_sources, groups, centers, sources,
                   config, results, config_json, messages, alloc, prev_alloc,
                   mainVars, rtl_lines>>

Next ==
    \/ MainLoginFails
    \/ MainLogin
    \/ MainSystemNotFound
    \/ \E confirmed \in BOOLEAN : MainSystemFound(confirmed)
    \/ FetchTalkgroupsFails
    \/ \E tgs \in {"empty", "found"} : FetchTalkgroups(tgs)
    \/ FetchSitesFails
    \/ FetchSiteSelected
    \/ MainUploadConfig
    \/ \E ok \in BOOLEAN : MainSave(ok)
    \/ AnalyzeConfig
    \/ \E f \in ControlDomain : FetchControlCell(f)
    \/ \E f \in FreqDomain : FetchRegularCell(f)
    \/ FetchSkippedCell
    \/ FetchReturn
    \/ GenerateConfigNoFrequencies
    \/ GenerateConfigPartition
    \/ DisplayFrequencyGraph
    \/ GenerateConfigSources
    \/ MainWriteConfig
    \/ MainExit
    \/ CallAgain

Spec == Init /\ [][Next]_vars

\* ------------------------------------- calculate_recorders on its own
\* control channel lists handed to calculate_recorders
ControlLists == UNION {[1..k -> AllocFreqs] : k \in 0..MaxControls}

\* all_frequencies lists handed to calculate_recorders
FrequencyLists == {<<>>, <<851012500, 851512500, 853987500>>}

\* one call of calculate_recorders: its arguments and what it does with
\* them; total_recorders // 0 raises ZeroDivisionError, every other call
\* returns a number
AllocCall(device_index, center_freq, bandwidth, all_frequencies, control_channels, total_devices) ==
    IF total_devices = 0
    THEN [called |-> TRUE, device_index |-> device_index,
          center_freq |-> center_freq, bandwidth |-> bandwidth,
          all_frequencies |-> all_frequencies,
          control_channels |-> control_channels,
          total_devices |-> total_devices,
          outcome |-> "ZeroDivisionError"]
    ELSE [called |-> TRUE, device_index |-> device_index,
          center_freq |-> center_freq, bandwidth |-> bandwidth,
          all_frequencies |-> all_frequencies,
          control_channels |-> control_channels,
          total_devices |-> total_devices,
          outcome |-> "returned",
          freq_count |-> FreqCount(center_freq, bandwidth, all_frequencies),
          control_count |-> ControlCount(center_freq, bandwidth, control_channels),
          unclamped |-> Unclamped(device_index,
                                  ControlCount(center_freq, bandwidth, control_channels),
                                  total_devices),
          recorders |-> calculate_recorders(device_index, center_freq, bandwidth,
                                            all_frequencies, control_channels,
                                            total_devices)]

\* the first call, for any receiver
CalculateRecorders(device_index, center_freq, bandwidth, all_frequencies, control_channels, total_devices) ==
    /\ alloc = NoCall
    /\ alloc' = AllocCall(device_index, center_freq, bandwidth, all_frequencies,
                          control_channels, total_devices)
    /\ prev_alloc' = alloc
    /\ UNCHANGED planVars

\* the second call for the same receiver, with other control channels
RecalculateRecorders(control_channels) ==
    /\ alloc # NoCall
    /\ prev_alloc = NoCall
    /\ control_channels # alloc.control_channels
    /\ alloc' = AllocCall(alloc.device_index, alloc.center_freq, alloc.bandwidth,
                          alloc.all_frequencies, control_channels,
                          alloc.total_devices)
    /\ prev_alloc' = alloc
    /\ UNCHANGED planVars

\* the second call for the same receiver, with other frequencies
RecalculateFrequencies(all_frequencies) ==
    /\ alloc # NoCall
    /\ prev_alloc = NoCall
    /\ all_frequencies # alloc.all_frequencies
    /\ alloc' = AllocCall(alloc.device_index, alloc.center_freq, alloc.bandwidth,
                          all_frequencies, alloc.control_channels,
                          alloc.total_devices)
    /\ prev_alloc' = alloc
    /\ UNCHANGED planVars

NextAlloc ==
    \/ /\ alloc = NoCall
       /\ \E n \in 0..MaxDevices : \E i \in 0..Max2(n - 1, 0) :
            \E c \in AllocCenters : \E bw \in AllocBandwidths :
              \E fs \in FrequencyLists : \E cc \in ControlLists :
                CalculateRecorders(i, c, bw, fs, cc, n)
    \/ /\ prev_alloc = NoCall
       /\ \E cc \in ControlLists : RecalculateRecorders(cc)
    \/ /\ prev_alloc = NoCall
       /\ \E fs \in FrequencyLists : RecalculateFrequencies(fs)

SpecAlloc == Init /\ [][NextAlloc]_vars

\* ================================================================ claims
\* the states in which the centers of the current call are computed
Partitioned == pc \in {"partitioned", "displayed"}

\* the states in which the current call has returned its plan
PlanReturned == pc \in {"returned", "done"} /\ config # None

HalfBandwidth == rtl_bandwidth \div 2

Covered(f, cs) ==
    \E i \in DOMAIN cs : cs[i] - HalfBandwidth <= f /\ f <= cs[i] + HalfBandwidth

\* C1: coverage completeness. Once the centers of a non-empty frequency
\* list are computed, every input frequency lies in the window
\* [center - B/2, center + B/2] of at least one receiver.
C1_CoverageComplete ==
    (Partitioned \/ PlanReturned) =>
        \A k \in DOMAIN system_info.frequencies :
            Covered(system_info.frequencies[k], centers)

\* C2: recorder bounds. Every recorder count calculate_recorders returns,
\* for any index, center, control channels and number of devices >= 1,
\* lies in [min_recorders, max_recorders].
C2_RecorderBounds ==
    (alloc.called /\ alloc.outcome = "returned") =>
        (min_recorders <= alloc.recorders /\ alloc.recorders <= max_recorders)

\* a call whose unclamped count is below the minimum and is raised to it
C2_Witness ==
    /\ alloc.called
    /\ alloc.outcome = "returned"
    /\ alloc.total_devices >= 1
    /\ (total_recorders \div alloc.total_devices) < min_recorders
    /\ alloc.recorders = min_recorders

\* C3: receiver count. The number of sources equals
\* max(1, floor(span / bandwidth) + 1) with span = max - min of the input,
\* and a further frequency within [min, max] leaves that number unchanged.
C3_ReceiverCount ==
    (Partitioned \/ PlanReturned) =>
        LET lo == SeqMin(system_info.frequencies)
            hi == SeqMax(system_info.frequencies)
            expected == IF ((hi - lo) \div 2400000) + 1 >= 1
                        THEN ((hi - lo) \div 2400000) + 1 ELSE 1
        IN /\ num_sources = expected
           /\ Len(centers) = expected
           /\ PlanReturned => Len(config.sources) = expected
           /\ \A f \in FreqDomain :
                (lo <= f /\ f <= hi) =>
                    NumSources(Sorted(Append(system_info.frequencies, f))) = num_sources

\* a returned plan of several receivers whose list has an inner frequency
C3_Witness ==
    /\ PlanReturned
    /\ Len(config.sources) >= 3
    /\ \E k \in DOMAIN system_info.frequencies :
           /\ SeqMin(system_info.frequencies) < system_info.frequencies[k]
           /\ system_info.frequencies[k] < SeqMax(system_info.frequencies)

\* the worked example: four frequencies, one control channel
ExampleReturned ==
    /\ PlanReturned
    /\ freqs = <<851012500, 851512500, 852012500, 853987500>>
    /\ system_info.control_channels = <<851012500>>

\* C4 as stated: the example splits 3 / 1 with centers 851512500 and
\* 853987500, base 11, control bonus 1 for receiver 0, both clamped to 10.
C4_ExampleAsStated ==
    ExampleReturned =>
        /\ Len(sources) = 2
        /\ groups = << <<851012500, 851512500, 852012500>>, <<853987500>> >>
        /\ centers = <<851512500, 853987500>>
        /\ BasePerDevice(num_sources) = 11
        /\ sources[1].digitalRecorders = 10
        /\ sources[2].digitalRecorders = 10

\* C4 amended: the example splits 2 / 2 with centers 851262500 and
\* 853000000; with the budget of 36 the base is 18, receiver 0 gets control
\* bonus 1 and receiver 1 none, and both counts are clamped to 10.
C4_WorkedExample ==
    ExampleReturned =>
        /\ Len(sources) = 2
        /\ groups = << <<851012500, 851512500>>, <<852012500, 853987500>> >>
        /\ centers = <<851262500, 853000000>>
        /\ sources[1].center = 851262500
        /\ sources[2].center = 853000000
        /\ BasePerDevice(num_sources) = 18
        /\ ControlBonus(ControlCount(centers[1], rtl_bandwidth,
                                     system_info.control_channels)) = 1
        /\ ControlBonus(ControlCount(centers[2], rtl_bandwidth,
                                     system_info.control_channels)) = 0
        /\ sources[1].digitalRecorders = 10
        /\ sources[2].digitalRecorders = 10

C4_Witness == ExampleReturned /\ Len(results) = 1

\* C5: single frequency. A list of exactly one frequency f gives one
\* receiver, centered on f, with clamp(total budget, min, max) recorders,
\* whatever the control channels are.
C5_SingleFrequency ==
    (PlanReturned /\ Len(system_info.frequencies) = 1) =>
        /\ Len(config.sources) = 1
        /\ config.sources[1].center = system_info.frequencies[1]
        /\ config.sources[1].digitalRecorders =
               (IF total_recorders > max_recorders THEN max_recorders
                ELSE IF total_recorders < min_recorders THEN min_recorders
                ELSE total_recorders)

\* a returned plan for one frequency that is also a control channel
C5_Witness ==
    /\ PlanReturned
    /\ Len(system_info.frequencies) = 1
    /\ Len(system_info.control_channels) = 1

\* C6: control bonus monotonicity. Of two calls for the same receiver that
\* differ only in the control channels, the one with more control channels
\* in range gets at least as many recorders.
C6_ControlBonusMonotone ==
    (/\ prev_alloc.called /\ alloc.called
     /\ prev_alloc.outcome = "returned" /\ alloc.outcome = "returned") =>
        LET k1 == ControlCount(prev_alloc.center_freq, prev_alloc.bandwidth,
                               prev_alloc.control_channels)
            k2 == ControlCount(alloc.center_freq, alloc.bandwidth,
                               alloc.control_channels)
        IN /\ k1 < k2 => prev_alloc.recorders <= alloc.recorders
           /\ k2 < k1 => alloc.recorders <= prev_alloc.recorders

\* two calls for one receiver where the added control channel raised the count
C6_Witness ==
    /\ prev_alloc.called /\ alloc.called
    /\ prev_alloc.outcome = "returned" /\ alloc.outcome = "returned"
    /\ ControlCount(prev_alloc.center_freq, prev_alloc.bandwidth,
                    prev_alloc.control_channels) = 1
    /\ ControlCount(alloc.center_freq, alloc.bandwidth,
                    alloc.control_channels) = 2
    /\ prev_alloc.recorders < alloc.recorders

\* C7: empty input. With no frequencies generate_config reports "No
\* frequencies found" and returns None: no centers, no sources, no
\* config.json; and None is returned for no other input.
C7_EmptyInput ==
    /\ (results # <<>> /\ system_info.frequencies = <<>>) =>
           /\ \A r \in DOMAIN results : results[r] = None
           /\ config = None
           /\ NoFrequenciesFound \in messages
           /\ centers = <<>>
           /\ sources = <<>>
           /\ groups = <<>>
           /\ config_json = None
           /\ pc # "done"
    /\ \A r \in DOMAIN results :
           results[r] = None => system_info.frequencies = <<>>

\* main has left with status 1 after the call on an empty list
C7_Witness ==
    /\ pc = "exit"
    /\ system_info.frequencies = <<>>
    /\ results = <<None>>
    /\ cell > 0

\* C8: invalid configuration. A call of calculate_recorders with a
\* bandwidth <= 0 is reported as InvalidBandwidthError and returns no
\* recorder count.
C8_InvalidBandwidthReported ==
    (alloc.called /\ alloc.bandwidth <= 0 /\ alloc.total_devices >= 1) =>
        alloc.outcome = "InvalidBandwidthError"

\* C9: determinism. All calls of generate_config on the same system_info
\* return the same plan: as many receivers, the same centers in the same
\* order, the same recorder counts.
C9_Determinism ==
    \A r1, r2 \in DOMAIN results : results[r1] = results[r2]

\* two calls have returned a plan of several receivers
C9_Witness ==
    /\ Len(results) = 2
    /\ results[2] # None
    /\ Len(results[2].sources) >= 2

RECURSIVE Flatten(_)
Flatten(gs) == IF gs = <<>> THEN <<>> ELSE Head(gs) \o Flatten(Tail(gs))

Occurrences(s, x) == Cardinality({k \in DOMAIN s : s[k] = x})

\* C10: grouping. The sorted list (duplicates kept) is split into n
\* contiguous blocks in ascending order whose concatenation is the whole
\* list; block i has floor(count / n) + 1 entries when i < count mod n and
\* floor(count / n) otherwise.
C10_Grouping ==
    (Partitioned \/ PlanReturned) =>
        LET count == Len(system_info.frequencies)
            n == num_sources
        IN /\ Len(freqs) = count
           /\ \A f \in FreqDomain : Occurrences(freqs, f) = Occurrences(system_info.frequencies, f)
           /\ \A k \in 1..(count - 1) : freqs[k] <= freqs[k + 1]
           /\ Len(groups) = n
           /\ Flatten(groups) = freqs
           /\ \A i \in 0..(n - 1) :
                Len(groups[i + 1]) =
                    IF i < count % n THEN (count \div n) + 1 ELSE count \div n

\* uneven blocks over a list with a duplicate
C10_Witness ==
    /\ Partitioned
    /\ num_sources = 3
    /\ Len(freqs) = 4
    /\ Len(groups[1]) = 2
    /\ \E k \in 1..3 : freqs[k] = freqs[k + 1]

\* C11: center placement. The center of every non-empty group is
\* floor((min(group) + max(group)) / 2), and all members of the group lie
\* within floor(bandwidth / 2) of it exactly when max(group) - min(group)
\* is at most twice that half bandwidth.
C11_CenterPlacement ==
    (Partitioned \/ PlanReturned) =>
        \A i \in DOMAIN groups :
            groups[i] # <<>> =>
                LET lo == SeqMin(groups[i])
                    hi == SeqMax(groups[i])
                IN /\ 2 * centers[i] <= lo + hi
                   /\ lo + hi <= 2 * centers[i] + 1
                   /\ (\A k \in DOMAIN groups[i] :
                          /\ centers[i] - HalfBandwidth <= groups[i][k]
                          /\ groups[i][k] <= centers[i] + HalfBandwidth)
                        <=> (hi - lo <= 2 * HalfBandwidth)

\* a group wider than the bandwidth, centered between its extremes
C11_Witness ==
    /\ Partitioned
    /\ \E i \in DOMAIN groups :
           /\ Len(groups[i]) >= 2
           /\ SeqMax(groups[i]) - SeqMin(groups[i]) > 2 * HalfBandwidth
           /\ centers[i] > SeqMin(groups[i])

\* C12 as stated: every one of the n groups of a non-empty list holds at
\* least one frequency.
C12_NoEmptyGroup ==
    (Partitioned \/ PlanReturned) => \A i \in DOMAIN groups : groups[i] # <<>>

\* C12 amended: group i (0-based) is empty exactly when i >= count, so no
\* group is empty exactly when the list holds at least n frequencies; the
\* center of an empty group is the fallback min + span * (i + 0.5) / n.
C12_EmptyGroups ==
    (Partitioned \/ PlanReturned) =>
        LET count == Len(system_info.frequencies)
            lo == SeqMin(system_info.frequencies)
            hi == SeqMax(system_info.frequencies)
        IN /\ \A i \in 0..(num_sources - 1) : (groups[i + 1] = <<>>) <=> (i >= count)
           /\ (\A i \in DOMAIN groups : groups[i] # <<>>) <=> (count >= num_sources)
           /\ \A i \in 0..(num_sources - 1) :
                groups[i + 1] = <<>> =>
                    /\ 2 * num_sources * (centers[i + 1] - lo) <= (hi - lo) * (2 * i + 1)
                    /\ (hi - lo) * (2 * i + 1) < 2 * num_sources * (centers[i + 1] - lo + 1)

\* three frequencies for five receivers: groups 0..2 hold one frequency
\* each, groups 3 and 4 are empty
C12_Witness ==
    /\ Partitioned
    /\ num_sources = 5
    /\ Len(freqs) = 3
    /\ groups[4] = <<>>
    /\ groups[3] # <<>>

\* C15: control channels are a subset of the frequencies. Whatever cells
\* fetch_system_data has processed, every control channel entry also occurs
\* among the frequencies.
C15_ControlSubset ==
    \A f \in FreqDomain :
        Occurrences(system_info.control_channels, f)
            <= Occurrences(system_info.frequencies, f)

\* the row held control, regular and skipped cells
C15_Witness ==
    /\ pc = "main"
    /\ system_info.control_channels # <<>>
    /\ Len(system_info.frequencies) > Len(system_info.control_channels)
    /\ cell > Len(system_info.frequencies)

\* C18 as stated: the centers of every plan are non-decreasing in the
\* receiver index.
C18_OrderedCenters ==
    (Partitioned \/ PlanReturned) =>
        \A i \in 1..(Len(centers) - 1) : centers[i] <= centers[i + 1]

\* C18 amended: the centers are non-decreasing in the receiver index
\* whenever no group is empty, that is when the list holds at least n
\* frequencies; the sources carry these centers in this order.
C18_OrderedCentersOfFullGroups ==
    (/\ Partitioned \/ PlanReturned
     /\ Len(system_info.frequencies) >= num_sources) =>
        /\ \A i \in 1..(Len(centers) - 1) : centers[i] <= centers[i + 1]
        /\ PlanReturned =>
              \A i \in 1..(Len(config.sources) - 1) :
                  /\ config.sources[i].device + 1 = config.sources[i + 1].device
                  /\ config.sources[i].center <= config.sources[i + 1].center

\* a returned plan of three receivers from a row that was not in order
C18_Witness ==
    /\ PlanReturned
    /\ Len(config.sources) = 3
    /\ Len(system_info.frequencies) >= 3
    /\ system_info.frequencies[1] > system_info.frequencies[2]
    /\ config.sources[1].center < config.sources[3].center

\* both calls returned a count
BothReturned ==
    /\ prev_alloc.called /\ alloc.called
    /\ prev_alloc.outcome = "returned" /\ alloc.outcome = "returned"

RECURSIVE SumSeq(_)
SumSeq(s) == IF s = <<>> THEN 0 ELSE Head(s) + SumSeq(Tail(s))

\* base plus remainder share of the n receivers of a plan
EvenShares(n) ==
    [j \in 1..n |-> (total_recorders \div n)
                      + (IF j - 1 < total_recorders % n THEN 1 ELSE 0)]

\* min(2, k) for the k control channels in the window of every source
PlanBonuses(cfg) ==
    [j \in 1..Len(cfg.sources) |->
        LET k == Cardinality({c \in DOMAIN cfg.control_channels :
                    /\ cfg.sources[j].center - HalfBandwidth <= cfg.control_channels[c]
                    /\ cfg.control_channels[c] <= cfg.sources[j].center + HalfBandwidth})
        IN IF k < 2 THEN k ELSE 2]

\* no receiver's count is changed by the clamp
NoClamping(cfg) ==
    \A j \in 1..Len(cfg.sources) :
        /\ min_recorders <= EvenShares(Len(cfg.sources))[j] + PlanBonuses(cfg)[j]
        /\ EvenShares(Len(cfg.sources))[j] + PlanBonuses(cfg)[j] <= max_recorders

PlanRecorders(cfg) == [j \in 1..Len(cfg.sources) |-> cfg.sources[j].digitalRecorders]

\* C17: budget conservation without clamping. For every n >= 1 the bases
\* and remainder shares of the n receivers add up to the total budget, so
\* the recorder counts of a plan in which the clamp changes no count add up
\* to the total budget plus the control bonuses.
C17_BudgetConservation ==
    /\ \A n \in 1..MaxDevices : SumSeq(EvenShares(n)) = total_recorders
    /\ PlanReturned =>
          /\ SumSeq([j \in 1..num_sources |->
                        BasePerDevice(num_sources)
                          + RemainderShare(j - 1, num_sources)]) = total_recorders
          /\ NoClamping(config) =>
                SumSeq(PlanRecorders(config))
                    = total_recorders + SumSeq(PlanBonuses(config))

\* five receivers, none clamped, with a control bonus and the remainder
C17_Witness ==
    /\ PlanReturned
    /\ Len(config.sources) = 5
    /\ NoClamping(config)
    /\ SumSeq(PlanBonuses(config)) >= 2
    /\ SumSeq(PlanRecorders(config)) > total_recorders

\* every position of a line written with a marker
MarkedPositions(line) == line.coverage \cup line.center_mark \cup line.freq_marks

\* C20: the coverage reporter is a pure projection. display_frequency_graph
\* leaves the frequency list and the centers it is given unchanged, the
\* sources built after it carry exactly the centers computed before it, and
\* every position at which it writes a coverage, center or frequency marker
\* lies within 0..scale_width.
C20_PureProjection ==
    [][/\ (pc = "partitioned" /\ pc' = "displayed") =>
             /\ freqs' = freqs
             /\ centers' = centers
             /\ system_info' = system_info
             /\ Len(rtl_lines') = Len(centers)
             /\ \A i \in DOMAIN rtl_lines' :
                   MarkedPositions(rtl_lines'[i]) \subseteq 0..scale_width
       /\ (pc = "displayed" /\ pc' = "returned") =>
             /\ centers' = centers
             /\ Len(sources') = Len(centers)
             /\ \A i \in DOMAIN centers : sources'[i].center = centers[i]]_vars

\* a graph is displayed in which one coverage range starts left of the scale
\* and one ends right of it, both cut to the scale, and a frequency is marked
C20_Witness ==
    /\ pc = "displayed"
    /\ \E i \in DOMAIN rtl_lines :
          /\ rtl_lines[i].start_pos < 0
          /\ 0 \in rtl_lines[i].coverage
    /\ \E i \in DOMAIN rtl_lines :
          /\ rtl_lines[i].end_pos > scale_width
          /\ scale_width \in rtl_lines[i].coverage
    /\ \E i \in DOMAIN rtl_lines : rtl_lines[i].freq_marks # {}

\* the budget analyze-config.py prints as its target
analyzer_budget == 22

\* the allocator's result for analyzer_budget distributed evenly over n
\* sources
EvenAllocation(i, control_count, n) ==
    ClampRecorders((analyzer_budget \div n) + ControlBonus(control_count)
                     + (IF i < analyzer_budget % n THEN 1 ELSE 0))

\* C19: the analyzer agrees with the allocator. For every configuration
\* with n >= 1 sources, the recommended count of source i equals the
\* allocator's result for a budget of 22 distributed evenly over the n
\* sources, for the same centers, bandwidths and control channels.
C19_AnalyzerAgrees ==
    pc = "analyzed" =>
        \A i \in DOMAIN recommended :
            recommended[i]
                = EvenAllocation(i - 1,
                                 ControlCount(config_json.sources[i].center,
                                              config_json.sources[i].rate,
                                              config_json.control_channels),
                                 Len(config_json.sources))

\* the files of a full run only
FullRunFiles == {"config.json", "talkgroup-rdio.csv", "talkgroup-openmhz.csv"}

====
